---- MODULE Spec2Model ----
(***************************************************************************)
(* A model of the ULID codec of shogo82148/go-ulid (src/ulid.go).          *)
(*                                                                         *)
(* Representation.                                                         *)
(*   - a byte is an integer in 0..255; a character is its byte value;      *)
(*   - a string or byte slice is a sequence of bytes; element i of the Go  *)
(*     value (counted from 0) is element i+1 of the sequence;              *)
(*   - a ULID is a sequence of 16 bytes;                                   *)
(*   - a machine word (uint32, uint64, int64) is the set of the positions  *)
(*     of its one bits, bit 0 being the least significant: the 64-bit and  *)
(*     128-bit quantities of the code do not fit the integers of the model *)
(*     checker, and the code itself works on bits.  An int64 is the set of *)
(*     the one bits of its two's complement representation.                *)
(***************************************************************************)
EXTENDS Integers, Sequences, FiniteSets, TLC

\* ------------------------------------------------------------------------
\* Machine words
\* ------------------------------------------------------------------------

\* The bits 0..n-1 of the non-negative integer v.
BitsOf(v, n) == {b \in 0..(n - 1) : (v \div (2 ^ b)) % 2 = 1}

\* byte(x): the conversion of a word to a byte keeps its low 8 bits.
ByteOf(x) ==
    (IF 0 \in x THEN 1 ELSE 0) + (IF 1 \in x THEN 2 ELSE 0) +
    (IF 2 \in x THEN 4 ELSE 0) + (IF 3 \in x THEN 8 ELSE 0) +
    (IF 4 \in x THEN 16 ELSE 0) + (IF 5 \in x THEN 32 ELSE 0) +
    (IF 6 \in x THEN 64 ELSE 0) + (IF 7 \in x THEN 128 ELSE 0)

\* The bits of every byte.
ByteBits == [v \in 0..255 |-> BitsOf(v, 8)]

\* uint32(b), uint64(b), int64(b) of a byte b: zero extension.
WordOfByte(b) == ByteBits[b]

\* The table value converted through uint8, as with a table of bytes whose
\* sentinel is 0xFF: no sign is extended.
U64OfUint8(v) == IF v < 0 THEN ByteBits[v + 256] ELSE ByteBits[v]

\* uint64(v) of an int8 v: sign extension (uint64(int8(-1)) is all ones).
U64OfInt8(v) == IF v < 0 THEN ByteBits[v + 256] \cup (8..63) ELSE ByteBits[v]

\* x << k on a word of w bits: the bits shifted beyond bit w-1 are lost.
Shl(x, k, w) == {b + k : b \in {c \in x : c + k < w}}

\* x >> k on an unsigned word.
Shr(x, k) == {b - k : b \in {c \in x : c >= k}}

\* x >> k on an int64: the sign bit is copied into the vacated positions.
Sar64(x, k) == Shr(x, k) \cup (IF 63 \in x THEN (64 - k)..63 ELSE {})

\* The mask 0x1f.
Mask1f == 0..4

\* ------------------------------------------------------------------------
\* Constants of the package
\* ------------------------------------------------------------------------

\* len(ULID{}): type ULID [16]byte.
ULIDSize == 16

\* const EncodedSize = 26
EncodedSize == 26

\* var Zero ULID
Zero == [i \in 1..ULIDSize |-> 0]

\* var dec = [...]int8{...}: the reverse lookup table, indexed by a byte.
decTable ==
<<
    -1, -1, -1, -1, -1, -1, -1, -1, -1, -1,
    -1, -1, -1, -1, -1, -1, -1, -1, -1, -1,
    -1, -1, -1, -1, -1, -1, -1, -1, -1, -1,
    -1, -1, -1, -1, -1, -1, -1, -1, -1, -1,
    -1, -1, -1, -1, -1, -1, -1, -1,  0,  1,
     2,  3,  4,  5,  6,  7,  8,  9, -1, -1,
    -1, -1, -1, -1, -1, 10, 11, 12, 13, 14,
    15, 16, 17, -1, 18, 19, -1, 20, 21, -1,
    22, 23, 24, 25, 26, -1, 27, 28, 29, 30,
    31, -1, -1, -1, -1, -1, -1, 10, 11, 12,
    13, 14, 15, 16, 17, -1, 18, 19, -1, 20,
    21, -1, 22, 23, 24, 25, 26, -1, 27, 28,
    29, 30, 31, -1, -1, -1, -1, -1, -1, -1,
    -1, -1, -1, -1, -1, -1, -1, -1, -1, -1,
    -1, -1, -1, -1, -1, -1, -1, -1, -1, -1,
    -1, -1, -1, -1, -1, -1, -1, -1, -1, -1,
    -1, -1, -1, -1, -1, -1, -1, -1, -1, -1,
    -1, -1, -1, -1, -1, -1, -1, -1, -1, -1,
    -1, -1, -1, -1, -1, -1, -1, -1, -1, -1,
    -1, -1, -1, -1, -1, -1, -1, -1, -1, -1,
    -1, -1, -1, -1, -1, -1, -1, -1, -1, -1,
    -1, -1, -1, -1, -1, -1, -1, -1, -1, -1,
    -1, -1, -1, -1, -1, -1, -1, -1, -1, -1,
    -1, -1, -1, -1, -1, -1, -1, -1, -1, -1,
    -1, -1, -1, -1, -1, -1, -1, -1, -1, -1,
    -1, -1, -1, -1, -1, -1
>>

\* The table with Crockford's folding of the look-alikes: I, i, L and l
\* read as 1, O and o as 0.
decFolding(c) ==
    IF c \in {73, 105, 76, 108} THEN 1
    ELSE IF c \in {79, 111} THEN 0
    ELSE decTable[c + 1]

\* dec[c] for a byte c.
dec(c) == decTable[c + 1]

\* The alphabet of RFC 4648 base32, "ABCDEFGHIJKLMNOPQRSTUVWXYZ234567", in
\* the place of Crockford's: its letters come before its digits.
encodingRfc4648 ==
    <<65, 66, 67, 68, 69, 70, 71, 72, 73, 74, 75, 76, 77, 78, 79, 80,
      81, 82, 83, 84, 85, 86, 87, 88, 89, 90, 50, 51, 52, 53, 54, 55>>

\* const encoding = "0123456789ABCDEFGHJKMNPQRSTVWXYZ"
encoding ==
    <<48, 49, 50, 51, 52, 53, 54, 55, 56, 57, 65, 66, 67, 68, 69, 70,
      71, 72, 74, 75, 77, 78, 80, 81, 82, 83, 84, 86, 87, 88, 89, 90>>

\* The index masked by 0x0f in the place of 0x1f.
encNarrow(x) == encoding[ByteOf(x \cap (0..3)) + 1]

\* encoding[x & 0x1f ...]: the character at the index held by a word.
enc(x) == encoding[ByteOf(x \cap Mask1f) + 1]

\* The character '7' of the overflow test s[0] > '7'.
Char7 == 55

\* ------------------------------------------------------------------------
\* The decoder
\* ------------------------------------------------------------------------

\* The overflow test against '8' in the place of '7'.
OverflowsFrom9(s) == s[1] > Char7 + 1

\* if s[0] > '7': the first character stands for a value of four or five bits.
Overflows(s) == s[1] > Char7

\* The lookup converted to uint32 in the place of uint64.
LookupNarrow(s, i, k) == Shl(U64OfInt8(dec(s[i + 1])) \cap (0..31), k, 32)

\* uint64(dec[s[i]]) << k
Lookup(s, i, k) == Shl(U64OfInt8(dec(s[i + 1])), k, 64)

\* The 16 bytes with id[10] = byte(m >> 8), the line above it repeated, in
\* the place of id[10] = byte(m).
PackRepeated(h, m, l) ==
    << ByteOf(Shr(h, 40)), ByteOf(Shr(h, 32)), ByteOf(Shr(h, 24)),
       ByteOf(Shr(h, 16)), ByteOf(Shr(h, 8)), ByteOf(h),
       ByteOf(Shr(m, 32)), ByteOf(Shr(m, 24)), ByteOf(Shr(m, 16)),
       ByteOf(Shr(m, 8)), ByteOf(Shr(m, 8)),
       ByteOf(Shr(l, 32)), ByteOf(Shr(l, 24)), ByteOf(Shr(l, 16)),
       ByteOf(Shr(l, 8)), ByteOf(l) >>

\* var id ULID; id[0] = byte(h >> 40); ...; id[15] = byte(l): the 6 bytes of
\* the timestamp and the 10 random bytes.
Pack(h, m, l) ==
    << ByteOf(Shr(h, 40)), ByteOf(Shr(h, 32)), ByteOf(Shr(h, 24)),
       ByteOf(Shr(h, 16)), ByteOf(Shr(h, 8)), ByteOf(h),
       ByteOf(Shr(m, 32)), ByteOf(Shr(m, 24)), ByteOf(Shr(m, 16)),
       ByteOf(Shr(m, 8)), ByteOf(m),
       ByteOf(Shr(l, 32)), ByteOf(Shr(l, 24)), ByteOf(Shr(l, 16)),
       ByteOf(Shr(l, 8)), ByteOf(l) >>

\* h := uint64(dec[s[0]])<<45 | ... | uint64(dec[s[9]])
parseH(s) ==
    Lookup(s, 0, 45) \cup Lookup(s, 1, 40) \cup Lookup(s, 2, 35) \cup
    Lookup(s, 3, 30) \cup Lookup(s, 4, 25) \cup Lookup(s, 5, 20) \cup
    Lookup(s, 6, 15) \cup Lookup(s, 7, 10) \cup Lookup(s, 8, 5) \cup
    Lookup(s, 9, 0)

\* m := uint64(dec[s[10]])<<35 | ... | uint64(dec[s[17]])
parseM(s) ==
    Lookup(s, 10, 35) \cup Lookup(s, 11, 30) \cup Lookup(s, 12, 25) \cup
    Lookup(s, 13, 20) \cup Lookup(s, 14, 15) \cup Lookup(s, 15, 10) \cup
    Lookup(s, 16, 5) \cup Lookup(s, 17, 0)

\* l := uint64(dec[s[18]])<<35 | ... | uint64(dec[s[25]])
parseL(s) ==
    Lookup(s, 18, 35) \cup Lookup(s, 19, 30) \cup Lookup(s, 20, 25) \cup
    Lookup(s, 21, 20) \cup Lookup(s, 22, 15) \cup Lookup(s, 23, 10) \cup
    Lookup(s, 24, 5) \cup Lookup(s, 25, 0)

\* (h|m|l)&(1<<63) != 0
hasSentinel(h, m, l) == 63 \in (h \cup m \cup l)

\* func parse[T bs](s T) (ULID, error)
parse(s) ==
    IF Len(s) # EncodedSize
    THEN [id |-> Zero, err |-> "ErrInvalidSize"]
    ELSE
      LET h == parseH(s)
          m == parseM(s)
          l == parseL(s)
      IN  IF hasSentinel(h, m, l)
          THEN [id |-> Zero, err |-> "ErrInvalidCharacter"]
          ELSE IF Overflows(s)
          THEN [id |-> Zero, err |-> "ErrOverflow"]
          ELSE [id |-> Pack(h, m, l), err |-> "nil"]

\* func Parse(s string) (ULID, error)
Parse(s) == parse(s)

\* ------------------------------------------------------------------------
\* The encoder
\* ------------------------------------------------------------------------

\* uint32(id[i]) << k
Load32(id, i, k) == Shl(WordOfByte(id[i + 1]), k, 32)

\* The byte converted to uint32 in the place of uint64.
Load64Narrow(id, i, k) == Shl(WordOfByte(id[i + 1]), k, 32)

\* uint64(id[i]) << k
Load64(id, i, k) == Shl(WordOfByte(id[i + 1]), k, 64)

\* func (id ULID) text() [26]byte, the variant that combines 32-bit loads.
text(id) ==
    LET a == Load32(id, 0, 16) \cup Load32(id, 1, 8) \cup Load32(id, 2, 0)
        b == Load32(id, 2, 24) \cup Load32(id, 3, 16) \cup Load32(id, 4, 8) \cup
             Load32(id, 5, 0)
        c == Load32(id, 6, 24) \cup Load32(id, 7, 16) \cup Load32(id, 8, 8) \cup
             Load32(id, 9, 0)
        d == Load32(id, 9, 24) \cup Load32(id, 10, 16) \cup Load32(id, 11, 8) \cup
             Load32(id, 12, 0)
        e == Load32(id, 12, 24) \cup Load32(id, 13, 16) \cup Load32(id, 14, 8) \cup
             Load32(id, 15, 0)
    IN  << enc(Shr(a, 21)), enc(Shr(a, 16)), enc(Shr(a, 11)), enc(Shr(a, 6)),
           enc(Shr(a, 1)),
           enc(Shr(b, 20)), enc(Shr(b, 15)), enc(Shr(b, 10)), enc(Shr(b, 5)),
           enc(b),
           enc(Shr(c, 27)), enc(Shr(c, 22)), enc(Shr(c, 17)), enc(Shr(c, 12)),
           enc(Shr(c, 7)), enc(Shr(c, 2)),
           enc(Shr(d, 21)), enc(Shr(d, 16)), enc(Shr(d, 11)), enc(Shr(d, 6)),
           enc(Shr(d, 1)),
           enc(Shr(e, 20)), enc(Shr(e, 15)), enc(Shr(e, 10)), enc(Shr(e, 5)),
           enc(e) >>

\* func (id ULID) text() [26]byte, the variant that combines 64-bit loads.
text64(id) ==
    LET h == Load64(id, 0, 56) \cup Load64(id, 1, 48) \cup Load64(id, 2, 40) \cup
             Load64(id, 3, 32) \cup Load64(id, 4, 24) \cup Load64(id, 5, 16) \cup
             Load64(id, 6, 8) \cup Load64(id, 7, 0)
        l == Load64(id, 8, 56) \cup Load64(id, 9, 48) \cup Load64(id, 10, 40) \cup
             Load64(id, 11, 32) \cup Load64(id, 12, 24) \cup Load64(id, 13, 16) \cup
             Load64(id, 14, 8) \cup Load64(id, 15, 0)
    IN  << enc(Shr(h, 61)), enc(Shr(h, 56)), enc(Shr(h, 51)), enc(Shr(h, 46)),
           enc(Shr(h, 41)), enc(Shr(h, 36)), enc(Shr(h, 31)), enc(Shr(h, 26)),
           enc(Shr(h, 21)), enc(Shr(h, 16)),
           enc(Shr(h, 11)), enc(Shr(h, 6)), enc(Shr(h, 1)),
           enc(Shl(h, 4, 64) \cup Shr(l, 60)),
           enc(Shr(l, 55)), enc(Shr(l, 50)), enc(Shr(l, 45)), enc(Shr(l, 40)),
           enc(Shr(l, 35)), enc(Shr(l, 30)), enc(Shr(l, 25)), enc(Shr(l, 20)),
           enc(Shr(l, 15)), enc(Shr(l, 10)), enc(Shr(l, 5)), enc(l) >>

\* func (id ULID) String() string
String(id) == text(id)

\* func (id ULID) String() string of the 64-bit variant.
String64(id) == text64(id)

\* func (id ULID) MarshalText() ([]byte, error): the text and a nil error.
MarshalText(id) == text(id)

\* The receiver assigned before the error is looked at: *id = id2 in the
\* place of if err != nil { return err }; *id = id2.
UnmarshalTextEager(id, data) ==
    LET r == parse(data)
    IN  [id |-> r.id, err |-> r.err]

\* func (id *ULID) UnmarshalText(data []byte) error: the receiver after the
\* call, and the error.
UnmarshalText(id, data) ==
    LET r == parse(data)
    IN  IF r.err # "nil"
        THEN [id |-> id, err |-> r.err]
        ELSE [id |-> r.id, err |-> "nil"]

\* ------------------------------------------------------------------------
\* The binary model
\* ------------------------------------------------------------------------

\* func (id *ULID) SetTime(ms int64): the receiver after the call.
SetTime(id, ms) ==
    [id EXCEPT ![1] = ByteOf(Sar64(ms, 40)),
               ![2] = ByteOf(Sar64(ms, 32)),
               ![3] = ByteOf(Sar64(ms, 24)),
               ![4] = ByteOf(Sar64(ms, 16)),
               ![5] = ByteOf(Sar64(ms, 8)),
               ![6] = ByteOf(ms)]

\* The first byte converted through int8, which extends its sign:
\* int64(int8(id[0]))<<40 in the place of int64(id[0])<<40.
TimeSigned(id) ==
    Shl(U64OfInt8(IF id[1] >= 128 THEN id[1] - 256 ELSE id[1]), 40, 64) \cup
    Shl(WordOfByte(id[2]), 32, 64) \cup
    Shl(WordOfByte(id[3]), 24, 64) \cup Shl(WordOfByte(id[4]), 16, 64) \cup
    Shl(WordOfByte(id[5]), 8, 64) \cup WordOfByte(id[6])

\* func (id ULID) Time() int64
Time(id) ==
    Shl(WordOfByte(id[1]), 40, 64) \cup Shl(WordOfByte(id[2]), 32, 64) \cup
    Shl(WordOfByte(id[3]), 24, 64) \cup Shl(WordOfByte(id[4]), 16, 64) \cup
    Shl(WordOfByte(id[5]), 8, 64) \cup WordOfByte(id[6])

\* The size test len(data) < len(id) in the place of len(data) != len(id).
UnmarshalBinaryShort(id, data) ==
    IF Len(data) < Len(id)
    THEN [id |-> id, err |-> "ErrInvalidSize"]
    ELSE [id |-> [i \in 1..Len(id) |-> data[i]], err |-> "nil"]

\* func (id *ULID) UnmarshalBinary(data []byte) error: the receiver after
\* the call, and the error.
UnmarshalBinary(id, data) ==
    IF Len(data) # Len(id)
    THEN [id |-> id, err |-> "ErrInvalidSize"]
    ELSE [id |-> [i \in 1..Len(id) |-> data[i]], err |-> "nil"]

\* bytes.Compare(a, b): -1, 0 or +1 by the first byte that differs, a proper
\* prefix being the smaller.
bytesCompare(a, b) ==
    LET n == IF Len(a) < Len(b) THEN Len(a) ELSE Len(b)
        diff == {i \in 1..n : a[i] # b[i]}
    IN  IF diff = {}
        THEN (IF Len(a) < Len(b) THEN -1 ELSE IF Len(a) > Len(b) THEN 1 ELSE 0)
        ELSE LET i == CHOOSE j \in diff : \A k \in diff : j <= k
             IN  IF a[i] < b[i] THEN -1 ELSE 1

\* func (id ULID) Compare(other ULID) int
Compare(id, other) == bytesCompare(id, other)

\* Make with the random bytes read into a copy of id: the result keeps the
\* zero bytes.
MakeNoRandom(now, rnd) == SetTime(Zero, now)

\* func Make() ULID, given the clock's reading now (time.Now().UnixMilli(),
\* an int64) and the 10 bytes rnd that rand.Read stores into id[6:].
Make(now, rnd) ==
    LET id == SetTime(Zero, now)
    IN  [i \in 1..ULIDSize |-> IF i <= 6 THEN id[i] ELSE rnd[i - 6]]

\* ------------------------------------------------------------------------
\* Inputs
\* ------------------------------------------------------------------------

\* The longest chain of calls explored.
MaxCalls == 3

\* The longest text handed to the decoder.
MaxTextLen == 27

\* The longest byte slice handed to UnmarshalBinary.
MaxBinLen == 17

\* All byte values.
Bytes == 0..255

\* ULID{0x01, 0x56, 0x3e, 0x3a, 0xb5, 0xd3, 0xd6, 0x76, 0x4c, 0x61, 0xef,
\*      0xb9, 0x93, 0x02, 0xbd, 0x5b}
Vector == <<1, 86, 62, 58, 181, 211, 214, 118, 76, 97, 239, 185, 147, 2, 189, 91>>

\* The ULID whose 16 bytes are 0xFF.
AllFF == [i \in 1..ULIDSize |-> 255]

\* "01ARZ3NDEKTSV4RRFFQ69G5FAV"
VectorText ==
    <<48, 49, 65, 82, 90, 51, 78, 68, 69, 75, 84, 83, 86,
      52, 82, 82, 70, 70, 81, 54, 57, 71, 53, 70, 65, 86>>

\* "80000000000000000000000000"
OverflowText ==
    <<56, 48, 48, 48, 48, 48, 48, 48, 48, 48, 48, 48, 48,
      48, 48, 48, 48, 48, 48, 48, 48, 48, 48, 48, 48, 48>>

\* "8!000000000000000000000000"
BadText == [OverflowText EXCEPT ![2] = 33]

\* 0x1563e3ab5d3
VectorTime ==
    {0, 1, 4, 6, 7, 8, 10, 12, 13, 15, 17, 19, 20, 21, 25, 26, 27, 28, 29,
     33, 34, 36, 38, 40}

\* The receivers on which the calls that take an input are tried.
Receivers == {Zero, Vector, AllFF}

\* The texts handed to Parse: a valid text and an overflowing one with one
\* character replaced by any byte, texts of every length up to MaxTextLen, and
\* the texts of 26 times the same byte.
TextInputs ==
    {[b EXCEPT ![p] = c] : b \in {VectorText, OverflowText},
                           p \in 1..EncodedSize, c \in Bytes}
    \cup {SubSeq(b \o b, 1, n) : b \in {VectorText, BadText}, n \in 0..MaxTextLen}
    \cup {[p \in 1..EncodedSize |-> c] : c \in Bytes}

\* The texts handed to UnmarshalText.
UnmarshalTextInputs ==
    {[VectorText EXCEPT ![p] = c] : p \in {1, 2, 10, 11, 26},
                                    c \in {48, 55, 56, 90, 97, 122, 33, 73, 255}}
    \cup {SubSeq(b \o b, 1, n) : b \in {VectorText, BadText}, n \in 0..MaxTextLen}

\* The ULIDs compared with each other: one byte of a ULID replaced.
CompareInputs ==
    {[Vector EXCEPT ![p] = v] : p \in 1..ULIDSize, v \in {0, 127, 128, 255}}
    \cup Receivers

\* The byte slices handed to UnmarshalBinary: the zero and the all-0xFF ULID
\* with one byte replaced by any byte, the ULIDs that are compared, and slices
\* of every length up to MaxBinLen.
BinInputs ==
    {[b EXCEPT ![p] = v] : b \in {Zero, AllFF}, p \in 1..ULIDSize, v \in Bytes}
    \cup CompareInputs
    \cup {SubSeq(Vector \o AllFF, 1, n) : n \in 0..MaxBinLen}

\* The int64 values handed to SetTime.
MsInputs ==
    {{b} : b \in 0..63} \cup {(0..63) \ {b} : b \in 0..63}
    \cup {{}, 0..63, 0..47, 48..63, 0..62, VectorTime, VectorTime \cup {63}}

\* The readings of the clock: a time, the same time plus 2^48, another time.
NowInputs == {VectorTime, VectorTime \cup {48}, VectorTime \cup {2}}

\* The 10 bytes the random source delivers.
RandInputs == {SubSeq(Zero, 7, ULIDSize), SubSeq(Vector, 7, ULIDSize)}

\* ------------------------------------------------------------------------
\* The state machine: a caller of the package
\* ------------------------------------------------------------------------

VARIABLES
    calls,  \* the calls made so far, in order
    id,     \* the caller's ULID variable: the receiver of the methods, and
            \* the variable that id, err = Parse(s) and id = Make() assign
    prev,   \* the value of id before the last call
    arg,    \* the argument of the last call that took one
    out,    \* the value returned by the last call that returns one
    err,    \* the error returned by the last call ("nil": none; "panic")
    made    \* the Make calls so far: the clock, the random bytes, the result

vars == <<calls, id, prev, arg, out, err, made>>

Last(s) == s[Len(s)]

\* The last call returned without an error.
Succeeded == calls # <<>> /\ err = "nil"

\* The calls that take an input are tried on a fresh variable and on the
\* receivers that UnmarshalBinary has just stored.
AtReceiver ==
    \/ calls = <<>>
    \/ calls = <<"UnmarshalBinary">> /\ err = "nil" /\ id \in Receivers

Init ==
    /\ calls = <<>>
    /\ id = Zero
    /\ prev = Zero
    /\ arg = <<>>
    /\ out = <<>>
    /\ err = "nil"
    /\ made = <<>>

\* id, err = Parse(s)
DoParse(s) ==
    /\ Len(calls) < MaxCalls
    /\ calls' = Append(calls, "Parse")
    /\ LET r == Parse(s) IN id' = r.id /\ err' = r.err
    /\ prev' = id
    /\ arg' = s
    /\ UNCHANGED <<out, made>>

\* id, err = Parse(s) on an input text.
CallParse == calls = <<>> /\ \E s \in TextInputs : DoParse(s)

\* id, err = Parse(id.String()): the text of the last String call is parsed.
CallParseString == calls # <<>> /\ Last(calls) = "String" /\ DoParse(out)

\* err = id.UnmarshalText(data)
CallUnmarshalText ==
    /\ AtReceiver
    /\ \E data \in UnmarshalTextInputs :
        /\ calls' = Append(calls, "UnmarshalText")
        /\ LET r == UnmarshalText(id, data) IN id' = r.id /\ err' = r.err
        /\ prev' = id
        /\ arg' = data
        /\ UNCHANGED <<out, made>>

\* err = id.UnmarshalBinary(data)
CallUnmarshalBinary ==
    /\ AtReceiver
    /\ \E data \in (IF calls = <<>> THEN BinInputs
                    ELSE {Zero, Vector, SubSeq(Vector, 1, 15), Vector \o Vector}) :
        /\ calls' = Append(calls, "UnmarshalBinary")
        /\ LET r == UnmarshalBinary(id, data) IN id' = r.id /\ err' = r.err
        /\ prev' = id
        /\ arg' = data
        /\ UNCHANGED <<out, made>>

\* The calls after which the text of id is taken.
Decoders == {"Parse", "UnmarshalText", "UnmarshalBinary", "SetTime", "Make"}

\* out = id.String(), by the 32-bit loads.
CallString ==
    /\ Len(calls) < MaxCalls
    /\ Succeeded /\ Last(calls) \in Decoders
    /\ calls' = Append(calls, "String")
    /\ out' = String(id)
    /\ prev' = id
    /\ UNCHANGED <<id, arg, err, made>>

\* out = id.String(), by the 64-bit loads.
CallString64 ==
    /\ Len(calls) < MaxCalls
    /\ Succeeded /\ Last(calls) \in Decoders
    /\ calls' = Append(calls, "String")
    /\ out' = String64(id)
    /\ prev' = id
    /\ UNCHANGED <<id, arg, err, made>>

\* out, err = id.MarshalText()
CallMarshalText ==
    /\ Len(calls) < MaxCalls
    /\ Succeeded /\ Last(calls) \in Decoders /\ id \in Receivers
    /\ calls' = Append(calls, "MarshalText")
    /\ out' = MarshalText(id)
    /\ prev' = id
    /\ UNCHANGED <<id, arg, err, made>>

\* id.SetTime(ms)
CallSetTime ==
    /\ AtReceiver
    /\ \E ms \in MsInputs :
        /\ calls' = Append(calls, "SetTime")
        /\ id' = SetTime(id, ms)
        /\ prev' = id
        /\ arg' = ms
        /\ UNCHANGED <<out, err, made>>

\* out = id.Time()
CallTime ==
    /\ Len(calls) < MaxCalls
    /\ \/ calls # <<>> /\ Last(calls) = "SetTime"
       \/ AtReceiver
    /\ calls' = Append(calls, "Time")
    /\ out' = Time(id)
    /\ prev' = id
    /\ UNCHANGED <<id, arg, err, made>>

\* out = id.Compare(other)
CallCompare ==
    /\ calls = <<"UnmarshalBinary">> /\ err = "nil" /\ id \in CompareInputs
    /\ \E other \in CompareInputs :
        /\ calls' = Append(calls, "Compare")
        /\ out' = Compare(id, other)
        /\ prev' = id
        /\ arg' = other
        /\ UNCHANGED <<id, err, made>>

\* The caller has only called Make so far, and none of the calls panicked.
Making == err = "nil" /\ \A i \in 1..Len(calls) : calls[i] = "Make"

\* id = Make(): the clock reads now and the random source delivers rnd.
CallMake ==
    /\ Len(calls) < MaxCalls
    /\ Making
    /\ \E now \in NowInputs, rnd \in RandInputs :
        /\ calls' = Append(calls, "Make")
        /\ id' = Make(now, rnd)
        /\ made' = Append(made, [now |-> now, rnd |-> rnd, id |-> Make(now, rnd)])
        /\ prev' = id
        /\ UNCHANGED <<arg, out, err>>

\* id = Make(): the random source fails, and Make panics before it returns.
CallMakePanic ==
    /\ Len(calls) < MaxCalls
    /\ Making
    /\ calls' = Append(calls, "Make")
    /\ err' = "panic"
    /\ prev' = id
    /\ UNCHANGED <<id, arg, out, made>>

Next ==
    \/ CallParse
    \/ CallParseString
    \/ CallUnmarshalText
    \/ CallUnmarshalBinary
    \/ CallString
    \/ CallString64
    \/ CallMarshalText
    \/ CallSetTime
    \/ CallTime
    \/ CallCompare
    \/ CallMake
    \/ CallMakePanic

Spec == Init /\ [][Next]_vars

\* ------------------------------------------------------------------------
\* What the claims speak of
\* ------------------------------------------------------------------------

\* The name of the call made k calls before the last one (0: the last one),
\* "" when there is none.
Call(k) == IF Len(calls) > k THEN calls[Len(calls) - k] ELSE ""

\* a comes before b in byte-wise lexicographic order (a and b of one length).
LexLess(a, b) ==
    \E i \in 1..Len(a) : a[i] < b[i] /\ \A j \in 1..(i - 1) : a[j] = b[j]

\* The sign of the byte-wise lexicographic comparison of a and b.
LexSign(a, b) == IF LexLess(a, b) THEN -1 ELSE IF LexLess(b, a) THEN 1 ELSE 0

\* Bit j of the ULID x read as a 128-bit big-endian integer N (bit 0 the
\* least significant); the bits from 128 on are 0.
IdBit(x, j) ==
    IF j < 8 * ULIDSize /\ (x[ULIDSize - (j \div 8)] \div (2 ^ (j % 8))) % 2 = 1
    THEN 1 ELSE 0

\* (N >> 5*(25-i)) & 31 for the character position i in 0..25.
Digit(x, i) ==
    LET j == 5 * (EncodedSize - 1 - i)
    IN  IdBit(x, j) + 2 * IdBit(x, j + 1) + 4 * IdBit(x, j + 2) +
        8 * IdBit(x, j + 3) + 16 * IdBit(x, j + 4)

\* "0123456789ABCDEFGHJKMNPQRSTVWXYZ", as the claims spell it.
Crockford ==
    <<48, 49, 50, 51, 52, 53, 54, 55, 56, 57, 65, 66, 67, 68, 69, 70,
      71, 72, 74, 75, 77, 78, 80, 81, 82, 83, 84, 86, 87, 88, 89, 90>>

\* The 26 characters Crockford[(N >> 5*(25-i)) & 31], i = 0..25.
DigitsText(x) == [i \in 1..EncodedSize |-> Crockford[Digit(x, i - 1) + 1]]

\* Byte k (0 the most significant of 6) of the int64 ms modulo 2^48.
MsByte(ms, k) ==
    LET j == 8 * (5 - k)
        B(n) == IF n \in ms THEN 1 ELSE 0
    IN  B(j) + 2 * B(j + 1) + 4 * B(j + 2) + 8 * B(j + 3) + 16 * B(j + 4) +
        32 * B(j + 5) + 64 * B(j + 6) + 128 * B(j + 7)

\* The number of bits by which parse shifts the lookup of character i (0..25):
\* 45, 40, ..., 0 for the ten characters of h, 35, 30, ..., 0 for the eight
\* of m and for the eight of l.
ShiftOf(i) ==
    IF i < 10 THEN 5 * (9 - i)
    ELSE IF i < 18 THEN 5 * (17 - i)
    ELSE 5 * (25 - i)

\* The positions (0..25) of the text s whose lookup returns the sentinel -1.
SentinelAt(s) == {i \in 0..25 : decTable[s[i + 1] + 1] = -1}

\* The 32 canonical characters.
Canonical == {Crockford[i] : i \in 1..Len(Crockford)}

\* The lowercase letters a-z.
Lowercase == 97..122

\* The uppercase letter of a lowercase letter; any other byte is itself.
Upper(c) == IF c \in Lowercase THEN c - 32 ELSE c

\* The canonical characters and the lowercase forms of the letters among them.
Accepted == Canonical \cup {c \in Lowercase : Upper(c) \in Canonical}

\* Bit j of the sum over i of v(s[i]) * 32^(25-i): bit j % 5 of the value of
\* the character 25 - j \div 5.
TextBit(s, j) == (dec(s[EncodedSize - (j \div 5)]) \div (2 ^ (j % 5))) % 2

\* Byte k (0 the most significant of 16) of that sum.
ValueByte(s, k) ==
    LET j == 8 * (ULIDSize - 1 - k)
    IN  TextBit(s, j) + 2 * TextBit(s, j + 1) + 4 * TextBit(s, j + 2) +
        8 * TextBit(s, j + 3) + 16 * TextBit(s, j + 4) + 32 * TextBit(s, j + 5) +
        64 * TextBit(s, j + 6) + 128 * TextBit(s, j + 7)

\* ------------------------------------------------------------------------
\* The claims
\* ------------------------------------------------------------------------

\* C1. Round trip, binary first: when the text that String returned for a
\* ULID x is handed to Parse, Parse returns no error and a ULID equal to x
\* in all 16 bytes.
C1_RoundTripBinary ==
    (Call(0) = "Parse" /\ Call(1) = "String") =>
        /\ err = "nil"
        /\ Len(id) = ULIDSize
        /\ \A i \in 1..ULIDSize : id[i] = prev[i]

\* C1 happens: the all-0xFF ULID was stored, turned into text and parsed back.
C1_Witness ==
    /\ calls = <<"UnmarshalBinary", "String", "Parse">>
    /\ prev = AllFF
    /\ arg = String(AllFF)
    /\ id = AllFF

C3_OrderPreserved ==
    Call(0) = "Compare" =>
        /\ out \in {-1, 0, 1}
        /\ out = 0 <=> id = arg
        /\ out = LexSign(id, arg)
        /\ out = LexSign(String(id), String(arg))
        /\ out = LexSign(String64(id), String64(arg))

\* C3 happens: two ULIDs that differ in the top bit of byte 6 alone, a bit in
\* the middle of a 5-bit group, are compared.
C3_Witness ==
    /\ calls = <<"UnmarshalBinary", "Compare">>
    /\ id = [Vector EXCEPT ![7] = 127]
    /\ arg = [Vector EXCEPT ![7] = 128]
    /\ out = -1

C5_Overflow ==
    (/\ Call(0) = "Parse"
     /\ Len(arg) = EncodedSize
     /\ \A i \in 1..EncodedSize : dec(arg[i]) >= 0)
    => /\ err = "ErrOverflow" <=> dec(arg[1]) >= 8
       /\ dec(arg[1]) >= 8 <=> arg[1] > 55
       /\ arg[1] \in 48..55 => err = "nil"
       /\ err \in {"nil", "ErrOverflow"}

\* C5 happens: Parse was handed "80000000000000000000000000" and returned
\* ErrOverflow.
C5_Witness ==
    /\ calls = <<"Parse">>
    /\ arg = OverflowText
    /\ err = "ErrOverflow"

\* C6. Size: Parse and UnmarshalText return ErrInvalidSize exactly when the
\* input is not 26 long, whatever its characters; UnmarshalBinary returns
\* ErrInvalidSize exactly when the input is not 16 long, and with 16 bytes it
\* succeeds and stores them as they are.
C6_SizeValidation ==
    /\ Call(0) \in {"Parse", "UnmarshalText"} =>
          (err = "ErrInvalidSize" <=> Len(arg) # 26)
    /\ Call(0) = "UnmarshalBinary" =>
          /\ err = "ErrInvalidSize" <=> Len(arg) # 16
          /\ Len(arg) = 16 => err = "nil" /\ id = arg

\* C6 happens: Parse was handed the 25 characters "8!00000000000000000000000",
\* with an overflowing first character and an invalid second one, and
\* returned ErrInvalidSize.
C6_Witness ==
    /\ calls = <<"Parse">>
    /\ arg = SubSeq(BadText, 1, 25)
    /\ err = "ErrInvalidSize"

\* C7. Decoder result: for every 26-character string s that Parse accepts,
\* the 16 bytes returned are the big-endian bytes of the sum over i of
\* v(s[i]) * 32^(25-i), v being the table value of a character: bytes 0-5
\* come from s[0..9] and bytes 6-15 from s[10..25]; the text
\* "01ARZ3NDEKTSV4RRFFQ69G5FAV" gives 01 56 3e 3a b5 d3 d6 76 4c 61 ef b9 93
\* 02 bd 5b.
C7_DecoderValue ==
    (Call(0) = "Parse" /\ err = "nil") =>
        /\ Len(id) = ULIDSize
        /\ \A k \in 0..(ULIDSize - 1) : id[k + 1] = ValueByte(arg, k)
        /\ TextBit(arg, 128) = 0 /\ TextBit(arg, 129) = 0
        /\ arg = VectorText => id = Vector

\* C7 happens: Parse accepted "01ARZ3NDEKZSV4RRFFQ69G5FAV", the text of the
\* tests with Z as the first character of the random part, and returned the
\* ULID of the tests with the five high bits of byte 6 set.
C7_Witness ==
    /\ calls = <<"Parse">>
    /\ arg = [VectorText EXCEPT ![11] = 90]
    /\ err = "nil"
    /\ id = [Vector EXCEPT ![7] = 254]

\* C8. Encoder result: String and MarshalText return exactly 26 characters,
\* character i being the alphabet symbol of (N >> 5*(25-i)) & 31 for the ULID
\* read as the 128-bit big-endian integer N; character 0 is in '0'..'7'; the
\* variant with 32-bit loads and the one with 64-bit loads return the same.
C8_EncoderDigits ==
    Call(0) \in {"String", "MarshalText"} =>
        /\ Len(out) = EncodedSize
        /\ out = DigitsText(id)
        /\ out[1] \in 48..55
        /\ String(id) = out
        /\ String64(id) = out

\* C8 happens: the ULID of the tests was turned into text.
C8_Witness ==
    /\ calls = <<"UnmarshalBinary", "String">>
    /\ id = Vector
    /\ out = VectorText

\* C9. Timestamp field: for every int64 ms, negative values and values >=
\* 2^48 included, after id.SetTime(ms) the bytes 0-5 of id hold ms mod 2^48
\* most significant byte first, the bytes 6-15 are as before, no error is
\* raised, and id.Time() returns ms mod 2^48, a value in [0, 2^48-1], which is
\* ms itself when 0 <= ms < 2^48.
C9_TimestampField ==
    /\ Call(0) = "SetTime" =>
          /\ \A k \in 0..5 : id[k + 1] = MsByte(arg, k)
          /\ \A k \in 6..15 : id[k + 1] = prev[k + 1]
          /\ Len(id) = ULIDSize
          /\ err = "nil"
    /\ (Call(0) = "Time" /\ Call(1) = "SetTime") =>
          /\ out = arg \cap (0..47)
          /\ out \subseteq 0..47
          /\ arg \subseteq 0..47 => out = arg
          /\ err = "nil"

\* C9 happens: SetTime(-1) was called on the ULID of the tests, and Time
\* returned 2^48 - 1.
C9_Witness ==
    /\ calls = <<"UnmarshalBinary", "SetTime", "Time">>
    /\ arg = 0..63
    /\ id = [i \in 1..ULIDSize |-> IF i <= 6 THEN 255 ELSE Vector[i]]
    /\ out = 0..47

C11_NoPartialSuccess ==
    /\ Call(0) \in {"Parse", "UnmarshalText"} =>
          err \in {"nil", "ErrInvalidSize", "ErrInvalidCharacter", "ErrOverflow"}
    /\ Call(0) = "UnmarshalBinary" => err \in {"nil", "ErrInvalidSize"}
    /\ (Call(0) = "Parse" /\ err # "nil") =>
          /\ Len(id) = 16
          /\ \A k \in 1..16 : id[k] = 0
    /\ (Call(0) \in {"UnmarshalText", "UnmarshalBinary"} /\ err # "nil") =>
          /\ Len(id) = 16
          /\ \A k \in 1..16 : id[k] = prev[k]
    /\ (Call(0) = "UnmarshalText" /\ err = "nil") =>
          /\ Len(id) = 16
          /\ \A k \in 0..15 : id[k + 1] = ValueByte(arg, k)
    /\ (Call(0) = "UnmarshalBinary" /\ err = "nil") =>
          /\ Len(id) = 16
          /\ \A k \in 1..16 : id[k] = arg[k]

\* C11 happens: UnmarshalText was handed the overflowing text
\* "81ARZ3NDEKTSV4RRFFQ69G5FAV" on a receiver that held the ULID of the
\* tests, returned ErrOverflow and left the receiver as it was.
C11_Witness ==
    /\ calls = <<"UnmarshalBinary", "UnmarshalText">>
    /\ prev = Vector
    /\ arg = [VectorText EXCEPT ![1] = 56]
    /\ err = "ErrOverflow"
    /\ id = Vector

\* C12. The aggregate sentinel check is exact: for every 26-byte input, the
\* single test (h|m|l) & 2^63 != 0 is true exactly when at least one of the
\* 26 lookups returned the sentinel -1, at whatever position (those shifted
\* by 0 and by 45 included) and whatever the other characters; a lookup of an
\* accepted character, a value in 0..31 shifted by at most 45, never sets bit
\* 63.  So an input with an invalid character yields ErrInvalidCharacter,
\* never ErrOverflow, also when its first character is above '7', and no
\* lookup indexes the table out of range.
C12_SentinelExact ==
    (Call(0) = "Parse" /\ Len(arg) = 26) =>
        /\ Len(decTable) = 256
        /\ \A i \in 0..25 :
              /\ arg[i + 1] \in 0..255
              /\ dec(arg[i + 1]) \in -1..31
              /\ ShiftOf(i) \in 0..45
              /\ 63 \in Lookup(arg, i, ShiftOf(i)) <=> i \in SentinelAt(arg)
        /\ hasSentinel(parseH(arg), parseM(arg), parseL(arg))
              <=> SentinelAt(arg) # {}
        /\ SentinelAt(arg) # {} <=> err = "ErrInvalidCharacter"

\* C12 happens: Parse was handed "8000000000000000000000000!", whose first
\* character is above '7' and whose last character, shifted by 0, is
\* invalid, and returned ErrInvalidCharacter.
C12_Witness ==
    /\ calls = <<"Parse">>
    /\ arg = [OverflowText EXCEPT ![26] = 33]
    /\ 0 \notin SentinelAt(arg)
    /\ 25 \in SentinelAt(arg)
    /\ hasSentinel(parseH(arg), parseM(arg), parseL(arg))
    /\ err = "ErrInvalidCharacter"

====
